---------------------------- MODULE Spec2Model ----------------------------
(***************************************************************************)
(* gethostname.rs (src/src/lib.rs): gethostname() and try_gethostname(),   *)
(* in the POSIX build (sysconf + libc::gethostname) and in the Windows     *)
(* build (GetComputerNameExW called twice: probe, then fill).              *)
(*                                                                         *)
(* The operating system is the environment: the current host name, what    *)
(* sysconf(_SC_HOST_NAME_MAX) answers, what the C library does with a      *)
(* buffer that is too small, and whether the call fails.  The library's    *)
(* code is modelled statement by statement, one action per statement, for  *)
(* each calling thread.                                                    *)
(***************************************************************************)
EXTENDS Integers, Sequences, FiniteSets

\* ------------------------------------------------------------------ bounds

\* The longest host name the modelled kernel accepts.
HostNameMax == 2

\* How many calls one thread makes, one after the other.
MaxCalls == 2

\* How many times the environment renames the host while the program runs.
MaxRenames == 1

\* How many threads there are.
NThreads == 2

Threads == 1..NThreads

\* ------------------------------------------------------------- environment

VARIABLES
    platform,          \* "posix" | "windows": the cfg(windows) the build selects
    overflow_checks,   \* the build's overflow checks (on in debug, off in release)
    sysconf_value,     \* what sysconf(_SC_HOST_NAME_MAX) returns on this system
    os_mode,           \* what the host-name call does: see LibcGethostname
    hostname,          \* the host name the kernel currently holds
    renames,           \* how many times the environment has renamed the host
    budget             \* how many calls each thread of the program makes

\* ------------------------------------------------------------- per thread

VARIABLES
    pc,                \* where the thread is in the function it called
    op,                \* "gethostname" | "try_gethostname": the function called
    calls,             \* calls started so far
    hostname_max,      \* let hostname_max (line 102)
    buffer,            \* let mut buffer (lines 103, 152)
    buffer_size,       \* let mut buffer_size (line 140)
    returncode,        \* let returncode (lines 104, 153)
    end,               \* let end (lines 113, 165)
    last_os_error,     \* errno / GetLastError(): thread-local, set by the OS
    try_result,        \* what try_gethostname() returned
    outcome            \* how the function the caller called ended

\* ------------------------------------------------- history (observations)

VARIABLES
    steps,             \* the statements the current call has executed, in order
    observed,          \* what the OS told the current call
    overflowed,        \* the current call's hostname_max + 1 overflowed usize
    first              \* how the thread's first call ended, and when

env_vars == <<platform, overflow_checks, sysconf_value, os_mode, hostname, renames,
              budget>>

local_vars == <<hostname_max, buffer, buffer_size, returncode, end, last_os_error>>

vars == <<platform, overflow_checks, sysconf_value, os_mode, hostname, renames,
          budget, pc, op, calls, hostname_max, buffer, buffer_size, returncode, end,
          last_os_error, try_result, outcome, steps, observed, overflowed, first>>

\* ------------------------------------------------------------------ values

\* A host name holds no zero: bytes on POSIX; UTF-16 code units on Windows,
\* here a high and a low surrogate, which make one supplementary character
\* when the low follows the high and are unpaired otherwise.
NameUnits(p) == IF p = "windows" THEN {55357, 56832} ELSE {97, 98}

Names(p) == UNION {[1..n -> NameUnits(p)] : n \in 0..HostNameMax}

Zeros(n) == [i \in 1..n |-> 0]

\* usize::MAX.  TLC's integers have 32 bits, so the machine word is scaled to
\* 16 bits; the code depends on two facts only: -1 as usize = usize::MAX and
\* usize::MAX + 1 does not fit.
USIZE_MAX == (2^16) - 1

\* `hostname_max as usize`: c_long reinterpreted as an unsigned word.
AsUsize(x) == IF x < 0 THEN x + USIZE_MAX + 1 ELSE x

\* Result<OsString, Error>
NoResult == [tag |-> "None", name |-> <<>>, error |-> "none"]

Ok(s) == [tag |-> "Ok", name |-> s, error |-> "none"]

Err(e) == [tag |-> "Err", name |-> <<>>, error |-> e]

IssueUrl == "https://github.com/lunaryorn/gethostname.rs/issues"

NoMessage == [text |-> "none", error |-> "none", report |-> "none"]

NoOutcome == [kind |-> "none", result |-> NoResult, message |-> NoMessage]

Returned(r) == [kind |-> "returned", result |-> r, message |-> NoMessage]

Panicked(m) == [kind |-> "panic", result |-> NoResult, message |-> m]

\* The panic of an overflowing `+` in a build with overflow checks.
OverflowMessage == [text |-> "attempt to add with overflow", error |-> "none",
                    report |-> "none"]

\* What a call has seen of the operating system: how many times it made the
\* call that fills the buffer, the host name at that moment, the buffer
\* before and after it, the return code and the error it set, the size and
\* return code of the Windows probe, and the number of renames when the call
\* began.
NoObservation == [made |-> 0, name |-> <<>>, size |-> 0, zeroed |-> <<>>,
                  filled |-> <<>>, rc |-> 0, error |-> "none",
                  probes |-> 0, probed |-> 0, probe_rc |-> 0, from |-> 0]


\* -------------------------------------------------- the operating system

\* What the C library does when the name and its NUL do not fit the buffer
\* (POSIX leaves it open): glibc fails with ENAMETOOLONG, the BSDs truncate
\* and leave the name unterminated, musl truncates and terminates.  "fault"
\* is a call that fails for another reason.
PosixModes == {"ENAMETOOLONG", "truncate", "truncate_nul", "fault"}

WindowsModes == {"ok", "fault"}

Min(a, b) == IF a < b THEN a ELSE b

\* sysconf(_SC_HOST_NAME_MAX): the limit, or -1 when it is indeterminate or
\* the query fails.
Sysconf == sysconf_value

\* libc::gethostname(buf, len): the bytes it leaves in the buffer, the return
\* code and the errno it sets.
LibcGethostname(buf, name, mode) ==
    LET n == Len(buf)
        k == Min(Len(name), n)
        copied == [i \in 1..n |-> IF i <= k THEN name[i] ELSE buf[i]]
    IN  IF mode = "fault"
        THEN [buffer |-> buf, rc |-> -1, error |-> "EFAULT"]
        ELSE IF Len(name) < n
        THEN [buffer |-> [copied EXCEPT ![k + 1] = 0], rc |-> 0, error |-> "none"]
        ELSE IF mode = "ENAMETOOLONG"
        THEN [buffer |-> copied, rc |-> -1, error |-> "ENAMETOOLONG"]
        ELSE IF mode = "truncate_nul" /\ n > 0
        THEN [buffer |-> [copied EXCEPT ![n] = 0], rc |-> 0, error |-> "none"]
        ELSE [buffer |-> copied, rc |-> 0, error |-> "none"]

\* GetComputerNameExW(ComputerNamePhysicalDnsHostname, buf, &size): with a
\* NULL buffer or a size too small for the name and its NUL it writes the
\* size it needs, sets ERROR_MORE_DATA and returns 0; otherwise it writes the
\* name and its NUL, sets size to the name's length and returns non-zero.
GetComputerNameExW(buf, is_null, size, name, mode) ==
    LET needed == Len(name) + 1
    IN  IF mode = "fault"
        THEN [buffer |-> buf, size |-> size, rc |-> 0,
              error |-> "ERROR_INVALID_PARAMETER"]
        ELSE IF is_null \/ size < needed
        THEN [buffer |-> buf, size |-> needed, rc |-> 0, error |-> "ERROR_MORE_DATA"]
        ELSE [buffer |-> [i \in 1..Len(buf) |->
                             IF i <= Len(name) THEN name[i]
                             ELSE IF i = needed THEN 0 ELSE buf[i]],
              size |-> Len(name), rc |-> 1, error |-> "none"]

\* The environment renames the host (sethostname, a network reconfiguration).
Rename(n) ==
    /\ renames < MaxRenames
    /\ n \in Names(platform)
    /\ n # hostname
    /\ hostname' = n
    /\ renames' = renames + 1
    /\ UNCHANGED <<platform, overflow_checks, sysconf_value, os_mode, budget>>
    /\ UNCHANGED <<pc, op, calls, try_result, outcome>>
    /\ UNCHANGED local_vars
    /\ UNCHANGED <<steps, observed, overflowed, first>>

\* ------------------------------------------------------ the library, pure

\* (hostname_max as usize) + 1, before it is fitted into a usize.
BufferLen(hm) == AsUsize(hm) + 1

\* A variant of ScanEnd whose default is one past the buffer.
ScanEndPastBuffer(buf) ==
    IF \E i \in 1..Len(buf) : buf[i] = 0
    THEN (CHOOSE i \in 1..Len(buf) :
              /\ buf[i] = 0
              /\ \A j \in 1..(i - 1) : buf[j] # 0) - 1
    ELSE Len(buf) + 1

\* buffer.iter().position(|&b| b == 0).unwrap_or_else(|| buffer.len()),
\* counting from 0 as the code does.
ScanEnd(buf) ==
    IF \E i \in 1..Len(buf) : buf[i] = 0
    THEN (CHOOSE i \in 1..Len(buf) :
              /\ buf[i] = 0
              /\ \A j \in 1..(i - 1) : buf[j] # 0) - 1
    ELSE Len(buf)

\* A variant of Resize that never truncates.
ResizeGrowOnly(buf, new_len, value) ==
    IF new_len <= Len(buf)
    THEN buf
    ELSE buf \o [i \in 1..(new_len - Len(buf)) |-> value]

\* Vec::resize(new_len, value): truncates, or extends with value.
Resize(buf, new_len, value) ==
    IF new_len <= Len(buf)
    THEN SubSeq(buf, 1, new_len)
    ELSE buf \o [i \in 1..(new_len - Len(buf)) |-> value]

\* OsString::from_vec on Unix: the OsString owns the very bytes of the vector.
FromVec(bytes) == bytes

IsHighSurrogate(u) == u >= 55296 /\ u <= 56319

IsLowSurrogate(u) == u >= 56320 /\ u <= 57343

\* OsString::from_wide on Windows: the code units decoded to code points, a
\* high surrogate followed by a low one making one supplementary code point,
\* any other surrogate kept as it is.
RECURSIVE FromWide(_)
FromWide(wide) ==
    IF wide = <<>> THEN <<>>
    ELSE IF Len(wide) >= 2 /\ IsHighSurrogate(wide[1]) /\ IsLowSurrogate(wide[2])
    THEN <<65536 + (wide[1] - 55296) * 1024 + (wide[2] - 56320)>>
             \o FromWide(SubSeq(wide, 3, Len(wide)))
    ELSE <<wide[1]>> \o FromWide(Tail(wide))

\* The panic message of gethostname() (lines 63-69 and 73-79).
PanicMessage(p, e) ==
    [text |-> IF p = "windows" THEN "GetComputerNameExW failed to read hostname: "
              ELSE "gethostname failed: ",
     error |-> e,
     report |-> IssueUrl]

SliceMessage == [text |-> "range end index out of range for slice",
                 error |-> "none", report |-> "none"]


\* ------------------------------------------------------------ bookkeeping

Set(f, t, v) == [f EXCEPT ![t] = v]

Step(t, name) == steps' = Set(steps, t, Append(steps[t], name))

NoCall == [op |-> "none", outcome |-> NoOutcome, from |-> 0]

\* A call ends: the thread's first call is remembered, with how it ended and
\* the number of renames when it began.
Remember(t, how) ==
    first' = IF calls[t] = 1
             THEN Set(first, t, [op |-> op[t], outcome |-> how,
                                 from |-> observed[t].from])
             ELSE first

\* --------------------------------------------------------------- the calls

\* A variant of Call that keeps the name of the thread's last call and hands
\* it out again without asking the operating system.
CallCached(t, f) ==
    /\ pc[t] = "idle"
    /\ calls[t] < budget
    /\ f \in {"gethostname", "try_gethostname"}
    /\ op' = Set(op, t, f)
    /\ calls' = Set(calls, t, calls[t] + 1)
    /\ pc' = Set(pc, t, IF try_result[t].tag = "Ok" THEN "ret" ELSE "query")
    /\ hostname_max' = Set(hostname_max, t, 0)
    /\ buffer' = Set(buffer, t, <<>>)
    /\ buffer_size' = Set(buffer_size, t, 0)
    /\ returncode' = Set(returncode, t, 0)
    /\ end' = Set(end, t, 0)
    /\ outcome' = Set(outcome, t, NoOutcome)
    /\ steps' = Set(steps, t, <<>>)
    /\ observed' = Set(observed, t, [NoObservation EXCEPT !.from = renames])
    /\ overflowed' = Set(overflowed, t, FALSE)
    /\ try_result' = IF try_result[t].tag = "Ok" THEN try_result
                     ELSE Set(try_result, t, NoResult)
    /\ UNCHANGED <<last_os_error, first>>
    /\ UNCHANGED env_vars

\* A thread calls gethostname() or try_gethostname(); the locals of the new
\* call do not exist yet.
Call(t, f) ==
    /\ pc[t] = "idle"
    /\ calls[t] < budget
    /\ f \in {"gethostname", "try_gethostname"}
    /\ op' = Set(op, t, f)
    /\ calls' = Set(calls, t, calls[t] + 1)
    /\ pc' = Set(pc, t, "query")
    /\ hostname_max' = Set(hostname_max, t, 0)
    /\ buffer' = Set(buffer, t, <<>>)
    /\ buffer_size' = Set(buffer_size, t, 0)
    /\ returncode' = Set(returncode, t, 0)
    /\ end' = Set(end, t, 0)
    /\ try_result' = Set(try_result, t, NoResult)
    /\ outcome' = Set(outcome, t, NoOutcome)
    /\ steps' = Set(steps, t, <<>>)
    /\ observed' = Set(observed, t, [NoObservation EXCEPT !.from = renames])
    /\ overflowed' = Set(overflowed, t, FALSE)
    /\ UNCHANGED <<last_os_error, first>>
    /\ UNCHANGED env_vars

\* ------------------------------------------- try_gethostname, not(windows)

\* let hostname_max = unsafe { sysconf(_SC_HOST_NAME_MAX) };
PosixSysconf(t) ==
    /\ platform = "posix"
    /\ pc[t] = "query"
    /\ hostname_max' = Set(hostname_max, t, Sysconf)
    /\ pc' = Set(pc, t, "alloc")
    /\ Step(t, "sysconf")
    /\ UNCHANGED <<buffer, buffer_size, returncode, end, last_os_error>>
    /\ UNCHANGED <<op, calls, try_result, outcome, observed, overflowed, first>>
    /\ UNCHANGED env_vars

\* let mut buffer = vec![0 as u8; (hostname_max as usize) + 1];
\* An overflowing + panics in a build with overflow checks and wraps in one
\* without.
PosixAlloc(t) ==
    LET len == BufferLen(hostname_max[t])
        overflow == len > USIZE_MAX
    IN  /\ platform = "posix"
        /\ pc[t] = "alloc"
        /\ Step(t, "alloc")
        /\ overflowed' = Set(overflowed, t, overflow)
        /\ IF overflow /\ overflow_checks
           THEN /\ pc' = Set(pc, t, "panicked")
                /\ outcome' = Set(outcome, t, Panicked(OverflowMessage))
                /\ Remember(t, Panicked(OverflowMessage))
                /\ UNCHANGED buffer
           ELSE /\ pc' = Set(pc, t, "syscall")
                /\ buffer' = Set(buffer, t, Zeros(len % (USIZE_MAX + 1)))
                /\ UNCHANGED <<outcome, first>>
        /\ UNCHANGED <<hostname_max, buffer_size, returncode, end, last_os_error>>
        /\ UNCHANGED <<op, calls, try_result, observed>>
        /\ UNCHANGED env_vars

\* let returncode = unsafe { libc::gethostname(buffer.as_mut_ptr(), buffer.len()) };
PosixGethostname(t) ==
    LET r == LibcGethostname(buffer[t], hostname, os_mode)
    IN  /\ platform = "posix"
        /\ pc[t] = "syscall"
        /\ buffer' = Set(buffer, t, r.buffer)
        /\ returncode' = Set(returncode, t, r.rc)
        /\ last_os_error' = IF r.rc # 0 THEN Set(last_os_error, t, r.error)
                            ELSE last_os_error
        /\ pc' = Set(pc, t, "check")
        /\ Step(t, "syscall")
        /\ observed' = Set(observed, t,
               [observed[t] EXCEPT !.made = @ + 1, !.name = hostname,
                                   !.size = Len(buffer[t]), !.zeroed = buffer[t],
                                   !.filled = r.buffer, !.rc = r.rc,
                                   !.error = r.error])
        /\ UNCHANGED <<hostname_max, buffer_size, end>>
        /\ UNCHANGED <<op, calls, try_result, outcome, overflowed, first>>
        /\ UNCHANGED env_vars

\* if returncode != 0
PosixFailed(rc) == rc # 0

\* A variant of PosixCheck that makes the host-name call a second time when
\* the first one fails.
PosixCheckRetry(t) ==
    /\ platform = "posix"
    /\ pc[t] = "check"
    /\ Step(t, "check")
    /\ IF PosixFailed(returncode[t]) /\ observed[t].made < 2
       THEN /\ pc' = Set(pc, t, "syscall")
            /\ UNCHANGED try_result
       ELSE IF PosixFailed(returncode[t])
       THEN /\ try_result' = Set(try_result, t, Err(last_os_error[t]))
            /\ pc' = Set(pc, t, "ret")
       ELSE /\ pc' = Set(pc, t, "scan")
            /\ UNCHANGED try_result
    /\ UNCHANGED local_vars
    /\ UNCHANGED <<op, calls, outcome, observed, overflowed, first>>
    /\ UNCHANGED env_vars

\* if returncode != 0 { return Err(Error::last_os_error()); }
PosixCheck(t) ==
    /\ platform = "posix"
    /\ pc[t] = "check"
    /\ Step(t, "check")
    /\ IF PosixFailed(returncode[t])
       THEN /\ try_result' = Set(try_result, t, Err(last_os_error[t]))
            /\ pc' = Set(pc, t, "ret")
       ELSE /\ pc' = Set(pc, t, "scan")
            /\ UNCHANGED try_result
    /\ UNCHANGED local_vars
    /\ UNCHANGED <<op, calls, outcome, observed, overflowed, first>>
    /\ UNCHANGED env_vars

\* let end = buffer.iter().position(|&b| b == 0).unwrap_or_else(|| buffer.len());
PosixScan(t) ==
    /\ platform = "posix"
    /\ pc[t] = "scan"
    /\ Step(t, "scan")
    /\ end' = Set(end, t, ScanEnd(buffer[t]))
    /\ pc' = Set(pc, t, "convert")
    /\ UNCHANGED <<hostname_max, buffer, buffer_size, returncode, last_os_error>>
    /\ UNCHANGED <<op, calls, try_result, outcome, observed, overflowed, first>>
    /\ UNCHANGED env_vars

\* buffer.resize(end, 0); Ok(OsString::from_vec(buffer))
PosixConvert(t) ==
    LET resized == Resize(buffer[t], end[t], 0)
    IN  /\ platform = "posix"
        /\ pc[t] = "convert"
        /\ Step(t, "convert")
        /\ buffer' = Set(buffer, t, resized)
        /\ try_result' = Set(try_result, t, Ok(FromVec(resized)))
        /\ pc' = Set(pc, t, "ret")
        /\ UNCHANGED <<hostname_max, buffer_size, returncode, end, last_os_error>>
        /\ UNCHANGED <<op, calls, outcome, observed, overflowed, first>>
        /\ UNCHANGED env_vars


\* ---------------------------------------------- try_gethostname, windows

\* let mut buffer_size: c_ulong = 0;
\* unsafe { GetComputerNameExW(.., std::ptr::null_mut(), &mut buffer_size) };
\* The value the call returns is dropped.
WinProbe(t) ==
    LET r == GetComputerNameExW(<<>>, TRUE, 0, hostname, os_mode)
    IN  /\ platform = "windows"
        /\ pc[t] = "query"
        /\ buffer_size' = Set(buffer_size, t, r.size)
        /\ last_os_error' = IF r.rc = 0 THEN Set(last_os_error, t, r.error)
                            ELSE last_os_error
        /\ pc' = Set(pc, t, "alloc")
        /\ Step(t, "probe")
        /\ observed' = Set(observed, t,
               [observed[t] EXCEPT !.probes = @ + 1, !.probed = r.size,
                                   !.probe_rc = r.rc])
        /\ UNCHANGED <<hostname_max, buffer, returncode, end>>
        /\ UNCHANGED <<op, calls, try_result, outcome, overflowed, first>>
        /\ UNCHANGED env_vars

\* A variant of WinAlloc whose buffer is one unit short of the probed size.
WinAllocShort(t) ==
    /\ platform = "windows"
    /\ pc[t] = "alloc"
    /\ buffer' = Set(buffer, t, Zeros(buffer_size[t] - 1))
    /\ pc' = Set(pc, t, "syscall")
    /\ Step(t, "alloc")
    /\ UNCHANGED <<hostname_max, buffer_size, returncode, end, last_os_error>>
    /\ UNCHANGED <<op, calls, try_result, outcome, observed, overflowed, first>>
    /\ UNCHANGED env_vars

\* let mut buffer = vec![0 as wchar_t; buffer_size as usize];
WinAlloc(t) ==
    /\ platform = "windows"
    /\ pc[t] = "alloc"
    /\ buffer' = Set(buffer, t, Zeros(buffer_size[t]))
    /\ pc' = Set(pc, t, "syscall")
    /\ Step(t, "alloc")
    /\ UNCHANGED <<hostname_max, buffer_size, returncode, end, last_os_error>>
    /\ UNCHANGED <<op, calls, try_result, outcome, observed, overflowed, first>>
    /\ UNCHANGED env_vars

\* let returncode = unsafe { GetComputerNameExW(.., buffer.as_mut_ptr(), &mut buffer_size) };
WinFill(t) ==
    LET r == GetComputerNameExW(buffer[t], FALSE, buffer_size[t], hostname, os_mode)
    IN  /\ platform = "windows"
        /\ pc[t] = "syscall"
        /\ buffer' = Set(buffer, t, r.buffer)
        /\ buffer_size' = Set(buffer_size, t, r.size)
        /\ returncode' = Set(returncode, t, r.rc)
        /\ last_os_error' = IF r.rc = 0 THEN Set(last_os_error, t, r.error)
                            ELSE last_os_error
        /\ pc' = Set(pc, t, "check")
        /\ Step(t, "syscall")
        /\ observed' = Set(observed, t,
               [observed[t] EXCEPT !.made = @ + 1, !.name = hostname,
                                   !.size = Len(buffer[t]), !.zeroed = buffer[t],
                                   !.filled = r.buffer, !.rc = r.rc,
                                   !.error = r.error])
        /\ UNCHANGED <<hostname_max, end>>
        /\ UNCHANGED <<op, calls, try_result, outcome, overflowed, first>>
        /\ UNCHANGED env_vars

\* A variant of WinFailed with the POSIX convention.
WinFailedAsPosix(rc) == rc # 0

\* GetComputerNameExW returns a non-zero value on success: if returncode == 0
WinFailed(rc) == rc = 0

\* if returncode == 0 { return Err(Error::last_os_error()); }
WinCheck(t) ==
    /\ platform = "windows"
    /\ pc[t] = "check"
    /\ Step(t, "check")
    /\ IF WinFailed(returncode[t])
       THEN /\ try_result' = Set(try_result, t, Err(last_os_error[t]))
            /\ pc' = Set(pc, t, "ret")
       ELSE /\ pc' = Set(pc, t, "scan")
            /\ UNCHANGED try_result
    /\ UNCHANGED local_vars
    /\ UNCHANGED <<op, calls, outcome, observed, overflowed, first>>
    /\ UNCHANGED env_vars

\* let end = buffer.iter().position(|&b| b == 0).unwrap_or_else(|| buffer.len());
WinScan(t) ==
    /\ platform = "windows"
    /\ pc[t] = "scan"
    /\ Step(t, "scan")
    /\ end' = Set(end, t, ScanEnd(buffer[t]))
    /\ pc' = Set(pc, t, "convert")
    /\ UNCHANGED <<hostname_max, buffer, buffer_size, returncode, last_os_error>>
    /\ UNCHANGED <<op, calls, try_result, outcome, observed, overflowed, first>>
    /\ UNCHANGED env_vars

\* Ok(OsString::from_wide(&buffer[0..end])): the slice panics when end is
\* beyond the buffer.
WinConvert(t) ==
    /\ platform = "windows"
    /\ pc[t] = "convert"
    /\ Step(t, "convert")
    /\ IF end[t] > Len(buffer[t])
       THEN /\ pc' = Set(pc, t, "panicked")
            /\ outcome' = Set(outcome, t, Panicked(SliceMessage))
            /\ Remember(t, Panicked(SliceMessage))
            /\ UNCHANGED try_result
       ELSE /\ try_result' = Set(try_result, t,
                   Ok(FromWide(SubSeq(buffer[t], 1, end[t]))))
            /\ pc' = Set(pc, t, "ret")
            /\ UNCHANGED <<outcome, first>>
    /\ UNCHANGED local_vars
    /\ UNCHANGED <<op, calls, observed, overflowed>>
    /\ UNCHANGED env_vars

\* ------------------------------------------------------------ the returns

\* try_gethostname() returns its Result to the caller that called it.
TryReturn(t) ==
    /\ pc[t] = "ret"
    /\ op[t] = "try_gethostname"
    /\ outcome' = Set(outcome, t, Returned(try_result[t]))
    /\ Remember(t, Returned(try_result[t]))
    /\ pc' = Set(pc, t, "idle")
    /\ UNCHANGED local_vars
    /\ UNCHANGED <<op, calls, try_result, steps, observed, overflowed>>
    /\ UNCHANGED env_vars

\* gethostname(), lines 56-80: Ok(hostname) => return hostname, Err(error) =>
\* panic!("... failed: {}\nPlease report ... <url>!", error)
GethostnameMatch(t) ==
    LET how == IF try_result[t].tag = "Ok"
               THEN Returned(try_result[t])
               ELSE Panicked(PanicMessage(platform, try_result[t].error))
    IN  /\ pc[t] = "ret"
        /\ op[t] = "gethostname"
        /\ outcome' = Set(outcome, t, how)
        /\ Remember(t, how)
        /\ pc' = Set(pc, t, IF how.kind = "panic" THEN "panicked" ELSE "idle")
        /\ UNCHANGED local_vars
        /\ UNCHANGED <<op, calls, try_result, steps, observed, overflowed>>
        /\ UNCHANGED env_vars

\* ---------------------------------------------------------- specifications

InitThreads ==
    /\ pc = [t \in Threads |-> "idle"]
    /\ op = [t \in Threads |-> "none"]
    /\ calls = [t \in Threads |-> 0]
    /\ hostname_max = [t \in Threads |-> 0]
    /\ buffer = [t \in Threads |-> <<>>]
    /\ buffer_size = [t \in Threads |-> 0]
    /\ returncode = [t \in Threads |-> 0]
    /\ end = [t \in Threads |-> 0]
    /\ last_os_error = [t \in Threads |-> "none"]
    /\ try_result = [t \in Threads |-> NoResult]
    /\ outcome = [t \in Threads |-> NoOutcome]
    /\ steps = [t \in Threads |-> <<>>]
    /\ observed = [t \in Threads |-> NoObservation]
    /\ overflowed = [t \in Threads |-> FALSE]
    /\ first = [t \in Threads |-> NoCall]

\* A POSIX system: sysconf answers -1 or a limit, which a misconfigured
\* system may report lower than the names its kernel holds.
InitPosix ==
    /\ platform = "posix"
    /\ overflow_checks \in BOOLEAN
    /\ sysconf_value \in (-1)..HostNameMax
    /\ os_mode \in PosixModes
    /\ hostname \in Names("posix")
    /\ renames = 0
    /\ InitThreads

\* A Windows system.  The Windows code does no arithmetic and asks no limit.
InitWindows ==
    /\ platform = "windows"
    /\ overflow_checks = FALSE
    /\ sysconf_value = 0
    /\ os_mode \in WindowsModes
    /\ hostname \in Names("windows")
    /\ renames = 0
    /\ InitThreads

PosixStep(t) ==
    \/ PosixSysconf(t)
    \/ PosixAlloc(t)
    \/ PosixGethostname(t)
    \/ PosixCheck(t)
    \/ PosixScan(t)
    \/ PosixConvert(t)

WinStep(t) ==
    \/ WinProbe(t)
    \/ WinAlloc(t)
    \/ WinFill(t)
    \/ WinCheck(t)
    \/ WinScan(t)
    \/ WinConvert(t)

CallStep(t) ==
    \/ \E f \in {"gethostname", "try_gethostname"} : Call(t, f)
    \/ TryReturn(t)
    \/ GethostnameMatch(t)

\* The host is renamed while a call is under way.
Renamed ==
    /\ \E t \in Threads : pc[t] \notin {"idle", "panicked"}
    /\ \E n \in Names(platform) : Rename(n)

\* The host is renamed after one call has returned and before the next begins.
RenamedBetweenCalls ==
    /\ \A t \in Threads : pc[t] = "idle"
    /\ \E t \in Threads : calls[t] > 0 /\ calls[t] < budget
    /\ \E n \in Names(platform) : Rename(n)

MainThread == CHOOSE t \in Threads : \A u \in Threads : t <= u

\* One thread makes one call while the environment renames the host.
Init ==
    /\ InitPosix \/ InitWindows
    /\ budget = 1

Next ==
    \/ CallStep(MainThread)
    \/ PosixStep(MainThread)
    \/ WinStep(MainThread)
    \/ Renamed

Spec == Init /\ [][Next]_vars

\* The same on a POSIX system whose sysconf tells the truth: the kernel's
\* limit, or -1.
InitConforming ==
    /\ InitPosix
    /\ sysconf_value \in {-1, HostNameMax}
    /\ budget = 1

NextPosix ==
    \/ CallStep(MainThread)
    \/ PosixStep(MainThread)
    \/ Renamed

SpecConforming == InitConforming /\ [][NextPosix]_vars

\* One thread calls again and again; the environment renames the host
\* between two calls.
InitRepeat ==
    /\ InitPosix \/ InitWindows
    /\ budget = MaxCalls

NextRepeat ==
    \/ CallStep(MainThread)
    \/ PosixStep(MainThread)
    \/ WinStep(MainThread)
    \/ RenamedBetweenCalls

SpecRepeat == InitRepeat /\ [][NextRepeat]_vars

\* All threads call at once, each once; the host keeps its name.
NextThreads ==
    \E t \in Threads :
        \/ CallStep(t)
        \/ PosixStep(t)
        \/ WinStep(t)

SpecThreads == Init /\ [][NextThreads]_vars


\* ------------------------------------------------- reading the model's state

\* OsStr::encode_wide: the code units of a Windows OsString.
RECURSIVE EncodeWide(_)
EncodeWide(points) ==
    IF points = <<>> THEN <<>>
    ELSE IF points[1] >= 65536
    THEN <<55296 + ((points[1] - 65536) \div 1024),
           56320 + ((points[1] - 65536) % 1024)>> \o EncodeWide(Tail(points))
    ELSE <<points[1]>> \o EncodeWide(Tail(points))

\* The bytes (POSIX) or code units (Windows) an OsString holds.
UnitsOf(name) == IF platform = "windows" THEN EncodeWide(name) ELSE name

\* The call of thread t has ended: it returned or it panicked.
Ended(t) == outcome[t].kind # "none"

\* try_gethostname() of thread t is past its return-code check.
Decided(t) == pc[t] \in {"scan", "convert", "ret"} \/ (Ended(t) /\ observed[t].made > 0)

\* try_gethostname() of thread t has returned.
TryReturned(t) == pc[t] = "ret" \/ (Ended(t) /\ try_result[t].tag # "None")

\* The call that fills the buffer was made and reported failure / success, by
\* the platform's own convention.
OsFailed(t) ==
    /\ observed[t].made > 0
    /\ IF platform = "windows" THEN observed[t].rc = 0 ELSE observed[t].rc # 0

OsSucceeded(t) == observed[t].made > 0 /\ ~OsFailed(t)

\* The maximum the system reported to the call: sysconf's answer on POSIX,
\* the probe's size less the terminator on Windows.
ReportedMax(t) ==
    IF platform = "windows" THEN observed[t].probed - 1 ELSE hostname_max[t]

NoZero(seq) == \A i \in 1..Len(seq) : seq[i] # 0

AllZero(seq) == \A i \in 1..Len(seq) : seq[i] = 0

IsPrefix(a, b) == Len(a) <= Len(b) /\ a = SubSeq(b, 1, Len(a))

PosixOrder == <<"sysconf", "alloc", "syscall", "check", "scan", "convert">>


\* ------------------------------------------------------------------ claims

\* C1: when the call that fills the buffer succeeds and the host name it
\* reported has no zero and a length from 0 to the reported maximum L, length
\* L included, try_gethostname() returns Ok with exactly that name, and
\* gethostname() returns exactly that name: same length, same units, same
\* order.
C1_ExactRoundTrip ==
    \A t \in Threads :
        (/\ TryReturned(t)
         /\ OsSucceeded(t)
         /\ NoZero(observed[t].name)
         /\ Len(observed[t].name) <= ReportedMax(t))
        => /\ try_result[t].tag = "Ok"
           /\ UnitsOf(try_result[t].name) = observed[t].name
           /\ Ended(t) => /\ outcome[t].kind = "returned"
                          /\ outcome[t].result.tag = "Ok"
                          /\ UnitsOf(outcome[t].result.name) = observed[t].name

\* C1's case: gethostname() has returned a name as long as the reported
\* maximum, which is the longest the kernel holds.
C1_Witness ==
    \E t \in Threads :
        /\ op[t] = "gethostname"
        /\ outcome[t].kind = "returned"
        /\ OsSucceeded(t)
        /\ ReportedMax(t) = HostNameMax
        /\ Len(observed[t].name) = HostNameMax
        /\ UnitsOf(outcome[t].result.name) = observed[t].name

\* C2: try_gethostname() returns Err exactly when the call that fills the
\* buffer reports failure (POSIX: a non-zero return code; Windows: a zero
\* return code of the second GetComputerNameExW call), and the Err carries
\* the error that call left as the thread's last OS error.
C2_ErrIffOsFailure ==
    \A t \in Threads :
        /\ try_result[t].tag = "Err" => Decided(t)
        /\ Decided(t) =>
              /\ (try_result[t].tag = "Err") <=> OsFailed(t)
              /\ try_result[t].tag = "Err" =>
                    /\ try_result[t].error = observed[t].error
                    /\ try_result[t].error = last_os_error[t]

\* C2's case: on Windows the second call returned zero for want of room and
\* try_gethostname() returned that error.
C2_Witness ==
    \E t \in Threads :
        /\ platform = "windows"
        /\ TryReturned(t)
        /\ observed[t].rc = 0
        /\ try_result[t] = Err("ERROR_MORE_DATA")

\* C5: when the call that fills the buffer succeeds and leaves no zero in the
\* whole buffer, try_gethostname() returns Ok with the whole buffer, as long
\* as the buffer; the end it computes is never beyond the buffer and it does
\* not panic.
C5_NoTerminator ==
    \A t \in Threads :
        /\ pc[t] = "convert" => end[t] <= observed[t].size
        /\ (OsSucceeded(t) /\ NoZero(observed[t].filled)) =>
              /\ outcome[t].kind # "panic"
              /\ pc[t] = "convert" => end[t] = observed[t].size
              /\ TryReturned(t) =>
                    /\ try_result[t].tag = "Ok"
                    /\ UnitsOf(try_result[t].name) = observed[t].filled
                    /\ Len(UnitsOf(try_result[t].name)) = observed[t].size

\* C5's case: a buffer of two bytes came back full, no zero in it, and
\* try_gethostname() has returned.
C5_Witness ==
    \E t \in Threads :
        /\ TryReturned(t)
        /\ OsSucceeded(t)
        /\ observed[t].size = 2
        /\ NoZero(observed[t].filled)
        /\ try_result[t].tag = "Ok"

\* C9: a POSIX call runs limits query, allocation, host-name call, return
\* code check, scan, truncate-and-convert in that order; it makes the
\* host-name call at most once, exactly once when it returns; when the call
\* reports failure it returns Err right after the check, nothing scanned or
\* converted.
C9_OrderNoRetry ==
    platform = "posix" =>
        \A t \in Threads :
            /\ IsPrefix(steps[t], PosixOrder)
            /\ observed[t].made <= 1
            /\ observed[t].made = 1 <=> Len(steps[t]) >= 3
            /\ TryReturned(t) => observed[t].made = 1
            /\ try_result[t].tag = "Err" =>
                  steps[t] = <<"sysconf", "alloc", "syscall", "check">>
            /\ try_result[t].tag = "Ok" => steps[t] = PosixOrder

\* C9's case: a POSIX call whose host-name call failed has returned Err.
C9_Witness ==
    \E t \in Threads :
        /\ platform = "posix"
        /\ Ended(t)
        /\ OsFailed(t)
        /\ try_result[t].tag = "Err"
        /\ observed[t].made = 1

\* C10: on Windows the probe's return code is never an error of the call,
\* the buffer given to the second call is as long as the size the probe
\* wrote, there is one probe and one fill, and whatever the host is renamed
\* to in between, the call returns Err (the fill failed: the name at the fill
\* needs more than the probed size, or the call itself failed) or Ok with
\* exactly the name that was current at the fill.
C10_ProbeThenFill ==
    platform = "windows" =>
        \A t \in Threads :
            /\ observed[t].probes <= 1 /\ observed[t].made <= 1
            /\ pc[t] = "syscall" => Len(buffer[t]) = observed[t].probed
            /\ observed[t].made = 1 => observed[t].size = observed[t].probed
            /\ TryReturned(t) =>
                  /\ observed[t].probes = 1 /\ observed[t].made = 1
                  /\ \/ /\ try_result[t].tag = "Err"
                        /\ \/ Len(observed[t].name) + 1 > observed[t].probed
                           \/ os_mode = "fault"
                     \/ /\ try_result[t].tag = "Ok"
                        /\ UnitsOf(try_result[t].name) = observed[t].name
                  /\ (observed[t].probe_rc = 0 /\ observed[t].rc # 0)
                        => try_result[t].tag = "Ok"

\* C10's case: the host got a shorter name between the probe and the fill,
\* and the call returned the name of the fill.
C10_Witness ==
    \E t \in Threads :
        /\ platform = "windows"
        /\ TryReturned(t)
        /\ observed[t].probed > Len(observed[t].name) + 1
        /\ Len(observed[t].name) > 0
        /\ try_result[t].tag = "Ok"
        /\ UnitsOf(try_result[t].name) = observed[t].name


\* C3: try_gethostname() never panics: whatever sysconf answers (a limit, 0
\* or -1) and however the host-name call ends, computing hostname_max + 1
\* does not overflow, nothing is accessed beyond the buffer, and no call
\* panics inside try_gethostname().
C3_NeverPanics ==
    \A t \in Threads :
        /\ ~overflowed[t]
        /\ pc[t] = "convert" => end[t] <= Len(buffer[t])
        /\ ~(outcome[t].kind = "panic" /\ try_result[t].tag = "None")
        /\ (Ended(t) /\ op[t] = "try_gethostname") =>
              /\ outcome[t].kind = "returned"
              /\ outcome[t].result.tag \in {"Ok", "Err"}

\* C4: gethostname() returns h when try_gethostname() returns Ok(h); it
\* panics when try_gethostname() returns Err(e), with a message that holds
\* the text of e and the address of the issue tracker; it panics in no other
\* case.
C4_PanicsOnlyOnErr ==
    \A t \in Threads :
        (op[t] = "gethostname" /\ Ended(t)) =>
            /\ try_result[t].tag = "Ok" => outcome[t] = Returned(try_result[t])
            /\ try_result[t].tag = "Err" =>
                  /\ outcome[t].kind = "panic"
                  /\ outcome[t].message.error = try_result[t].error
                  /\ outcome[t].message.report = IssueUrl
            /\ outcome[t].kind = "panic" => try_result[t].tag = "Err"

\* C6: when the threads call at once and the host keeps its name, no thread
\* panics and every thread whose host-name call did not fail gets the
\* current host name.
C6_ThreadsAgree ==
    \A t \in Threads :
        (Ended(t) /\ ~OsFailed(t)) =>
            /\ outcome[t].kind = "returned"
            /\ outcome[t].result.tag = "Ok"
            /\ UnitsOf(outcome[t].result.name) = hostname

\* C8: when the call that fills the buffer is about to be made, the buffer
\* is all zeros, it is at least as long as the longest host name the system
\* can have, and its length is sysconf's answer plus one on POSIX and the
\* size the probe wrote on Windows.
C8_BufferAtCall ==
    \A t \in Threads :
        pc[t] = "syscall" =>
            /\ AllZero(buffer[t])
            /\ Len(buffer[t]) >= HostNameMax
            /\ platform = "posix" => Len(buffer[t]) = hostname_max[t] + 1
            /\ platform = "windows" => Len(buffer[t]) = observed[t].probed

\* What try_gethostname() returned in a call that ended in the given way:
\* gethostname() hands on an Ok and turns an Err into its panic.
TryLevel(how) ==
    IF how.kind = "returned" THEN how.result
    ELSE IF how.message.report = IssueUrl THEN Err(how.message.error)
    ELSE NoResult

\* C7: a call that ends while the host has not been renamed since the
\* thread's first call began ends as the first call did; and every call that
\* returns has made the host-name call itself, once, and returns what that
\* call reported: its error, or the units it left in the buffer up to the
\* first zero.
C7_Idempotent ==
    \A t \in Threads :
        /\ (calls[t] >= 2 /\ Ended(t) /\ first[t].from = renames) =>
              TryLevel(outcome[t]) = TryLevel(first[t].outcome)
        /\ (Ended(t) /\ try_result[t].tag # "None") =>
              /\ observed[t].made = 1
              /\ TryLevel(outcome[t]) = try_result[t]
              /\ try_result[t].tag = "Err" =>
                    OsFailed(t) /\ try_result[t].error = observed[t].error
              /\ try_result[t].tag = "Ok" =>
                    LET got == UnitsOf(try_result[t].name)
                    IN  /\ OsSucceeded(t)
                        /\ NoZero(got)
                        /\ IsPrefix(got, observed[t].filled)
                        /\ \/ Len(got) = Len(observed[t].filled)
                           \/ observed[t].filled[Len(got) + 1] = 0

\* C7's case: a thread's second call has returned a name, the host not
\* renamed since its first call began.
C7_Witness ==
    \E t \in Threads :
        /\ calls[t] >= 2
        /\ Ended(t)
        /\ first[t].from = renames
        /\ first[t].outcome.result.tag = "Ok"
        /\ outcome[t].kind = "returned"
        /\ Len(outcome[t].result.name) > 0

=============================================================================
